---------------------------- MODULE Spec2Model ----------------------------
(***************************************************************************)
(* Join-table generation of mapboxgl-jupyter's vector layers               *)
(* (mapboxgl/layers.py, VectorMixin) and the style resolver it calls       *)
(* (mapboxgl.utils.numeric_map / color_map).                               *)
(*                                                                         *)
(* One layer object is modelled: a GraduatedCircleLayer, the layer class   *)
(* that carries both a colour property and a numeric ("radius") property.  *)
(* Its fields are the variables below.  Every method call is one action;   *)
(* `ret` holds what the most recent operation handed back to its caller.   *)
(*                                                                         *)
(* Numbers are exact rationals <<numerator, denominator>> in lowest terms  *)
(* with a positive denominator, so that 50.5 is <<101, 2>>.  Python        *)
(* computes in binary floating point; the model computes the same          *)
(* expression, in the same order, without rounding.                        *)
(*                                                                         *)
(* The second half models mapboxgl/viz.py: one MapViz object, its          *)
(* constructor, its legend, scale, snapshot and layer methods and          *)
(* create_html.  `viz` is its attribute dict and `viz_ret` the outcome of   *)
(* the most recent MapViz operation.                                       *)
(***************************************************************************)
EXTENDS Integers, Sequences, FiniteSets

VARIABLES
    data,                  \* self.data: a list of feature dicts, or a str naming a file / URL
    color_stops,           \* self.color_stops
    color_default,         \* self.color_default
    color_function_type,   \* self.color_function_type
    radius_stops,          \* self.radius_stops
    radius_default,        \* self.radius_default
    radius_function_type,  \* self.radius_function_type
    ret,                   \* outcome of the most recent operation
    earlier_len,           \* length of the last table returned before `ret`, -1 if none
    environ,               \* os.environ.get('MAPBOX_ACCESS_TOKEN'), NotSet when absent
    viz,                   \* the attributes of the MapViz object, NoViz when there is none
    viz_ret,               \* outcome of the most recent MapViz operation
    layer_objects          \* the attributes of the layer objects handed to a MapViz

layer_vars == <<data, color_stops, color_default, color_function_type,
                radius_stops, radius_default, radius_function_type, ret, earlier_len>>

viz_vars == <<environ, viz, viz_ret, layer_objects>>

vars == <<layer_vars, viz_vars>>

config == <<color_stops, color_default, color_function_type,
            radius_stops, radius_default, radius_function_type>>

-----------------------------------------------------------------------------
(* Bounds of the model *)

MaxRows == 2

MaxStops == 3

-----------------------------------------------------------------------------
(* Numbers *)

Abs(n) == IF n < 0 THEN -n ELSE n

RECURSIVE GCD(_, _)
GCD(a, b) == IF b = 0 THEN a ELSE GCD(b, a % b)

RNorm(n, d) ==
    LET s == IF d < 0 THEN -1 ELSE 1
        g == GCD(Abs(n), Abs(d))
    IN  <<(s * n) \div g, (s * d) \div g>>

RAdd(p, q) == RNorm(p[1] * q[2] + q[1] * p[2], p[2] * q[2])
RSub(p, q) == RNorm(p[1] * q[2] - q[1] * p[2], p[2] * q[2])
RMul(p, q) == RNorm(p[1] * q[1], p[2] * q[2])
RDiv(p, q) == RNorm(p[1] * q[2], p[2] * q[1])
RLt(p, q)  == p[1] * q[2] < q[1] * p[2]
RLe(p, q)  == p[1] * q[2] <= q[1] * p[2]

-----------------------------------------------------------------------------
(* Python values held by features and stop tables *)

Num(n)   == [t |-> "num", q |-> <<n, 1>>]
NumQ(q)  == [t |-> "num", q |-> q]
Str(s)   == [t |-> "str", s |-> s]
None     == [t |-> "none"]
Rgb(c)   == [t |-> "rgb", c |-> c]      \* the string 'rgb(r,g,b)'

\* isinstance(x, (int, float, complex))
IsNumber(v) == v.t = "num"

\* Python's order on str, on the strings the model uses
Alphabet == <<"a", "b", "blue", "c", "grey", "red">>
StrRank(s) == CHOOSE i \in DOMAIN Alphabet : Alphabet[i] = s

\* x < y for two numbers or two strings
ValueLess(x, y) ==
    IF x.t = "num" /\ y.t = "num" THEN RLt(x.q, y.q)
    ELSE IF x.t = "str" /\ y.t = "str" THEN StrRank(x.s) < StrRank(y.s)
    ELSE FALSE

-----------------------------------------------------------------------------
(* The resolver: mapboxgl.utils.numeric_map and color_map.  Their call     *)
(* sites pass (lookup, stops, default) and no function type.  One rule     *)
(* serves both function types: a lookup equal to a stop key returns that   *)
(* stop's output; otherwise a numeric lookup over numeric thresholds is    *)
(* clamped at the ends and interpolated linearly inside, over the stops    *)
(* ordered by threshold; anything else returns the default.                *)

\* match_map = dict((x, y) for (x, y) in stops): keys, and the value of a key
\* (the last pair with that key wins)
match_keys(stops) == {stops[i][1] : i \in DOMAIN stops}
match_get(stops, k) ==
    LET last == CHOOSE i \in DOMAIN stops :
                    /\ stops[i][1] = k
                    /\ \A j \in DOMAIN stops : stops[j][1] = k => j <= i
    IN  stops[last][2]

\* [threshold, output] < [threshold, output] as Python compares lists
PairLess(a, b) ==
    \/ ValueLess(a[1], b[1])
    \/ a[1] = b[1] /\ ValueLess(a[2], b[2])

RECURSIVE insort(_, _)
insort(s, x) ==
    IF s = <<>> THEN <<x>>
    ELSE IF PairLess(Head(s), x) THEN <<Head(s)>> \o insort(Tail(s), x)
    ELSE <<x>> \o s

\* sorted(stops)
RECURSIVE sorted(_)
sorted(stops) ==
    IF stops = <<>> THEN <<>> ELSE insort(sorted(Tail(stops)), Head(stops))

\* stops.index(x) on the sorted thresholds: the first position holding x
index_of(ordered, x) ==
    CHOOSE i \in DOMAIN ordered :
        /\ ordered[i][1] = x
        /\ \A j \in DOMAIN ordered : ordered[j][1] = x => i <= j

\* lower = max([stops[0]] + [x for x in stops if x < lookup])
lower_bound(ordered, lookup) ==
    LET below == {ordered[1][1]} \cup
                 {ordered[i][1] : i \in {j \in DOMAIN ordered : ValueLess(ordered[j][1], lookup)}}
    IN  CHOOSE x \in below : \A y \in below : ~ValueLess(x, y)

\* upper = min([stops[-1]] + [x for x in stops if x > lookup])
upper_bound(ordered, lookup) ==
    LET above == {ordered[Len(ordered)][1]} \cup
                 {ordered[i][1] : i \in {j \in DOMAIN ordered : ValueLess(lookup, ordered[j][1])}}
    IN  CHOOSE x \in above : \A y \in above : ~ValueLess(y, x)

\* distance = (lookup - lower) / (upper - lower)
distance(lookup, lower, upper) == RDiv(RSub(lookup.q, lower.q), RSub(upper.q, lower.q))

\* lower_value + distance * (upper_value - lower_value)
lerp(lower_value, upper_value, d) == RAdd(lower_value, RMul(d, RSub(upper_value, lower_value)))

\* a faulty resolver: the test for a lookup equal to a stop key is left out
numeric_map_no_exact(lookup, numeric_stops, default) ==
    IF Len(numeric_stops) = 0 THEN default
    ELSE IF ~IsNumber(lookup) THEN default
    ELSE IF \E i \in DOMAIN numeric_stops : ~IsNumber(numeric_stops[i][1]) THEN default
    ELSE LET ordered == sorted(numeric_stops)
             n       == Len(ordered)
         IN  IF RLe(lookup.q, ordered[1][1].q) THEN ordered[1][2]
             ELSE IF RLe(ordered[n][1].q, lookup.q) THEN ordered[n][2]
             ELSE LET lower == lower_bound(ordered, lookup)
                      upper == upper_bound(ordered, lookup)
                      lower_value == ordered[index_of(ordered, lower)][2]
                      upper_value == ordered[index_of(ordered, upper)][2]
                  IN  NumQ(lerp(lower_value.q, upper_value.q, distance(lookup, lower, upper)))

numeric_map(lookup, numeric_stops, default) ==
    IF Len(numeric_stops) = 0 THEN default
    ELSE IF lookup \in match_keys(numeric_stops) THEN match_get(numeric_stops, lookup)
    ELSE IF ~IsNumber(lookup) THEN default
    ELSE IF \E i \in DOMAIN numeric_stops : ~IsNumber(numeric_stops[i][1]) THEN default
    ELSE LET ordered == sorted(numeric_stops)
             n       == Len(ordered)
         IN  IF RLe(lookup.q, ordered[1][1].q) THEN ordered[1][2]
             ELSE IF RLe(ordered[n][1].q, lookup.q) THEN ordered[n][2]
             ELSE LET lower == lower_bound(ordered, lookup)
                      upper == upper_bound(ordered, lookup)
                      lower_value == ordered[index_of(ordered, lower)][2]
                      upper_value == ordered[index_of(ordered, upper)][2]
                  IN  NumQ(lerp(lower_value.q, upper_value.q, distance(lookup, lower, upper)))

\* rgb_tuple_from_str on the colour names the model uses
rgb_tuple_from_str(color) ==
    IF color.t = "rgb" THEN color.c
    ELSE CASE color.s = "red"  -> << <<255, 1>>, <<0, 1>>, <<0, 1>> >>
           [] color.s = "blue" -> << <<0, 1>>, <<0, 1>>, <<255, 1>> >>
           [] OTHER            -> << <<128, 1>>, <<128, 1>>, <<128, 1>> >>

\* a faulty resolver: a value between two thresholds takes the lower stop's
\* colour (a step function in place of the interpolation)
color_map_step(lookup, stops, default_color) ==
    IF Len(stops) = 0 THEN default_color
    ELSE IF lookup \in match_keys(stops) THEN match_get(stops, lookup)
    ELSE IF ~IsNumber(lookup) THEN default_color
    ELSE IF \E i \in DOMAIN stops : ~IsNumber(stops[i][1]) THEN default_color
    ELSE LET ordered == sorted(stops)
             n       == Len(ordered)
         IN  IF RLe(lookup.q, ordered[1][1].q) THEN ordered[1][2]
             ELSE IF RLe(ordered[n][1].q, lookup.q) THEN ordered[n][2]
             ELSE ordered[index_of(ordered, lower_bound(ordered, lookup))][2]

color_map(lookup, stops, default_color) ==
    IF Len(stops) = 0 THEN default_color
    ELSE IF lookup \in match_keys(stops) THEN match_get(stops, lookup)
    ELSE IF ~IsNumber(lookup) THEN default_color
    ELSE IF \E i \in DOMAIN stops : ~IsNumber(stops[i][1]) THEN default_color
    ELSE LET ordered == sorted(stops)
             n       == Len(ordered)
         IN  IF RLe(lookup.q, ordered[1][1].q) THEN ordered[1][2]
             ELSE IF RLe(ordered[n][1].q, lookup.q) THEN ordered[n][2]
             ELSE LET lower == lower_bound(ordered, lookup)
                      upper == upper_bound(ordered, lookup)
                      lower_color == rgb_tuple_from_str(ordered[index_of(ordered, lower)][2])
                      upper_color == rgb_tuple_from_str(ordered[index_of(ordered, upper)][2])
                      d == distance(lookup, lower, upper)
                  IN  Rgb([k \in 1..3 |-> lerp(lower_color[k], upper_color[k], d)])

-----------------------------------------------------------------------------
(* The layer's property names, fixed at construction *)

color_property     == "cat"
radius_property    == "pop"
data_join_property == "id"

\* the numeric properties generate_vector_numeric_map is called with
NumericProperties == {"radius"}

\* getattr(self, '{}_function_type'.format(numeric_property)) and its siblings
attr_function_type(numeric_property) ==
    CASE numeric_property = "radius" -> radius_function_type
attr_property(numeric_property) ==
    CASE numeric_property = "radius" -> radius_property
attr_stops(numeric_property) ==
    CASE numeric_property = "radius" -> radius_stops
attr_default(numeric_property) ==
    CASE numeric_property = "radius" -> radius_default

-----------------------------------------------------------------------------
(* self.data *)

ListData(rows) == [type |-> "list", rows |-> rows]
StrData(name)  == [type |-> "str", name |-> name]

\* the join-data files a str may name, and the features each holds
DataSources == {"join.json"}
SourceContent(name) ==
    << [id |-> Num(1), pop |-> Num(5), cat |-> Str("a")],
       [id |-> Num(2), pop |-> Num(12), cat |-> Str("a")] >>

\* geojson_to_dict_list(str): the properties of the features of the named file
geojson_to_dict_list(name) == SourceContent(name)

-----------------------------------------------------------------------------
(* Outcomes *)

NoReturn == [op |-> "none", status |-> "none", table |-> <<>>, loaded |-> FALSE]

\* a KeyError raised by row[...] leaves the method without a return value
Raised == [status |-> "KeyError", table |-> <<>>]
Returned(vector_stops) == [status |-> "ok", table |-> vector_stops]

\* a faulty loop: a feature whose join key is already in the table is dropped
RECURSIVE color_loop_dedup(_, _)
color_loop_dedup(rows, vector_stops) ==
    IF rows = <<>> THEN Returned(vector_stops)
    ELSE LET row == Head(rows)
         IN  IF color_property \notin DOMAIN row THEN Raised
             ELSE IF data_join_property \notin DOMAIN row THEN Raised
             ELSE IF \E i \in DOMAIN vector_stops :
                        vector_stops[i][1] = row[data_join_property]
                  THEN color_loop_dedup(Tail(rows), vector_stops)
             ELSE color_loop_dedup(Tail(rows),
                      Append(vector_stops,
                             <<row[data_join_property],
                               color_map(row[color_property], color_stops, color_default)>>))

\* for row in self.data: ... vector_stops.append([row[join], color]); return vector_stops
RECURSIVE color_loop(_, _)
color_loop(rows, vector_stops) ==
    IF rows = <<>> THEN Returned(vector_stops)
    ELSE LET row == Head(rows)
         IN  IF color_property \notin DOMAIN row THEN Raised
             ELSE IF data_join_property \notin DOMAIN row THEN Raised
             ELSE color_loop(Tail(rows),
                      Append(vector_stops,
                             <<row[data_join_property],
                               color_map(row[color_property], color_stops, color_default)>>))

\* a faulty loop: vector_stops.insert(0, ...) in place of append
RECURSIVE numeric_loop_reversed(_, _, _, _, _)
numeric_loop_reversed(rows, vector_stops, lookup_property, numeric_stops, default) ==
    IF rows = <<>> THEN Returned(vector_stops)
    ELSE LET row == Head(rows)
         IN  IF lookup_property \notin DOMAIN row THEN Raised
             ELSE IF data_join_property \notin DOMAIN row THEN Raised
             ELSE numeric_loop_reversed(Tail(rows),
                      << <<row[data_join_property],
                           numeric_map(row[lookup_property], numeric_stops, default)>> >>
                          \o vector_stops,
                      lookup_property, numeric_stops, default)

\* a faulty loop: a feature whose row[...] raises KeyError is skipped
RECURSIVE numeric_loop_skip(_, _, _, _, _)
numeric_loop_skip(rows, vector_stops, lookup_property, numeric_stops, default) ==
    IF rows = <<>> THEN Returned(vector_stops)
    ELSE LET row == Head(rows)
         IN  IF lookup_property \notin DOMAIN row \/ data_join_property \notin DOMAIN row
             THEN numeric_loop_skip(Tail(rows), vector_stops,
                                    lookup_property, numeric_stops, default)
             ELSE numeric_loop_skip(Tail(rows),
                      Append(vector_stops,
                             <<row[data_join_property],
                               numeric_map(row[lookup_property], numeric_stops, default)>>),
                      lookup_property, numeric_stops, default)

\* a faulty loop: row.get(lookup_property) in place of row[lookup_property]
RECURSIVE numeric_loop_get(_, _, _, _, _)
numeric_loop_get(rows, vector_stops, lookup_property, numeric_stops, default) ==
    IF rows = <<>> THEN Returned(vector_stops)
    ELSE LET row == Head(rows)
             value == IF lookup_property \in DOMAIN row THEN row[lookup_property] ELSE None
         IN  IF data_join_property \notin DOMAIN row THEN Raised
             ELSE numeric_loop_get(Tail(rows),
                      Append(vector_stops,
                             <<row[data_join_property],
                               numeric_map(value, numeric_stops, default)>>),
                      lookup_property, numeric_stops, default)

\* a faulty loop: [value, row[join]] in place of [row[join], value]
RECURSIVE numeric_loop_swapped(_, _, _, _, _)
numeric_loop_swapped(rows, vector_stops, lookup_property, numeric_stops, default) ==
    IF rows = <<>> THEN Returned(vector_stops)
    ELSE LET row == Head(rows)
         IN  IF lookup_property \notin DOMAIN row THEN Raised
             ELSE IF data_join_property \notin DOMAIN row THEN Raised
             ELSE numeric_loop_swapped(Tail(rows),
                      Append(vector_stops,
                             <<numeric_map(row[lookup_property], numeric_stops, default),
                               row[data_join_property]>>),
                      lookup_property, numeric_stops, default)

\* a faulty loop: the join key is resolved in place of the lookup value
RECURSIVE numeric_loop_by_join_key(_, _, _, _, _)
numeric_loop_by_join_key(rows, vector_stops, lookup_property, numeric_stops, default) ==
    IF rows = <<>> THEN Returned(vector_stops)
    ELSE LET row == Head(rows)
         IN  IF lookup_property \notin DOMAIN row THEN Raised
             ELSE IF data_join_property \notin DOMAIN row THEN Raised
             ELSE numeric_loop_by_join_key(Tail(rows),
                      Append(vector_stops,
                             <<row[data_join_property],
                               numeric_map(row[data_join_property], numeric_stops, default)>>),
                      lookup_property, numeric_stops, default)

\* for row in self.data: ... vector_stops.append([row[join], value]); return vector_stops
RECURSIVE numeric_loop(_, _, _, _, _)
numeric_loop(rows, vector_stops, lookup_property, numeric_stops, default) ==
    IF rows = <<>> THEN Returned(vector_stops)
    ELSE LET row == Head(rows)
         IN  IF lookup_property \notin DOMAIN row THEN Raised
             ELSE IF data_join_property \notin DOMAIN row THEN Raised
             ELSE numeric_loop(Tail(rows),
                      Append(vector_stops,
                             <<row[data_join_property],
                               numeric_map(row[lookup_property], numeric_stops, default)>>),
                      lookup_property, numeric_stops, default)

\* if type(self.data) == str: self.data = geojson_to_dict_list(self.data)
parse_data(d) == IF d.type = "str" THEN ListData(geojson_to_dict_list(d.name)) ELSE d

\* the table the caller holds from the most recent successful call
held_len == IF ret.status = "ok" THEN Len(ret.table) ELSE earlier_len

-----------------------------------------------------------------------------
(* Operations *)

\* a faulty call: the features are consumed (popped) while they are read
generate_vector_color_map_destructive ==
    LET out == color_loop(parse_data(data).rows, <<>>)
    IN  /\ data' = ListData(<<>>)
        /\ ret' = [op |-> "color", status |-> out.status, table |-> out.table,
                   loaded |-> (data.type = "str")]
        /\ earlier_len' = held_len
        /\ UNCHANGED viz_vars
        /\ UNCHANGED config

generate_vector_color_map ==
    LET out == color_loop(parse_data(data).rows, <<>>)
    IN  /\ data' = parse_data(data)
        /\ ret' = [op |-> "color", status |-> out.status, table |-> out.table,
                   loaded |-> (data.type = "str")]
        /\ earlier_len' = held_len
        /\ UNCHANGED viz_vars
        /\ UNCHANGED config

\* a faulty call: the loop takes each feature off the stored list (self.data.pop(0))
generate_vector_numeric_map_pop(numeric_property) ==
    LET lookup_property == attr_property(numeric_property)
        numeric_stops   == attr_stops(numeric_property)
        default         == attr_default(numeric_property)
        out == numeric_loop(parse_data(data).rows, <<>>, lookup_property, numeric_stops, default)
    IN  /\ data' = ListData(<<>>)
        /\ ret' = [op |-> "numeric", status |-> out.status, table |-> out.table,
                   loaded |-> (data.type = "str")]
        /\ earlier_len' = held_len
        /\ UNCHANGED viz_vars
        /\ UNCHANGED config

\* a faulty call: vector_stops outlives the call and the next call appends to it
generate_vector_numeric_map_carry(numeric_property) ==
    LET lookup_property == attr_property(numeric_property)
        numeric_stops   == attr_stops(numeric_property)
        default         == attr_default(numeric_property)
        kept == IF ret.op = "numeric" THEN ret.table ELSE <<>>
        out == numeric_loop(parse_data(data).rows, kept, lookup_property, numeric_stops, default)
    IN  /\ data' = parse_data(data)
        /\ ret' = [op |-> "numeric", status |-> out.status, table |-> out.table,
                   loaded |-> (data.type = "str")]
        /\ earlier_len' = held_len
        /\ UNCHANGED viz_vars
        /\ UNCHANGED config

\* a faulty call: the loop starts at the second feature (self.data[1:])
generate_vector_numeric_map_skip_first(numeric_property) ==
    LET lookup_property == attr_property(numeric_property)
        numeric_stops   == attr_stops(numeric_property)
        default         == attr_default(numeric_property)
        rows == parse_data(data).rows
        out == numeric_loop(IF rows = <<>> THEN rows ELSE Tail(rows), <<>>,
                            lookup_property, numeric_stops, default)
    IN  /\ data' = parse_data(data)
        /\ ret' = [op |-> "numeric", status |-> out.status, table |-> out.table,
                   loaded |-> (data.type = "str")]
        /\ earlier_len' = held_len
        /\ UNCHANGED viz_vars
        /\ UNCHANGED config

generate_vector_numeric_map(numeric_property) ==
    LET function_type   == attr_function_type(numeric_property)
        lookup_property == attr_property(numeric_property)
        numeric_stops   == attr_stops(numeric_property)
        default         == attr_default(numeric_property)
        match_width     == IF function_type = "match" THEN numeric_stops ELSE <<>>
        out == numeric_loop(parse_data(data).rows, <<>>, lookup_property, numeric_stops, default)
    IN  /\ data' = parse_data(data)
        /\ ret' = [op |-> "numeric", status |-> out.status, table |-> out.table,
                   loaded |-> (data.type = "str")]
        /\ earlier_len' = held_len
        /\ UNCHANGED viz_vars
        /\ UNCHANGED config

\* layer.data = layer.data + [feature]
append_feature(feature) ==
    /\ data.type = "list"
    /\ Len(data.rows) < MaxRows
    /\ data' = ListData(Append(data.rows, feature))
    /\ ret' = NoReturn
    /\ earlier_len' = held_len
    /\ UNCHANGED viz_vars
    /\ UNCHANGED config

\* layer.data = d
set_data(d) ==
    /\ data # d
    /\ data' = d
    /\ ret' = NoReturn
    /\ earlier_len' = held_len
    /\ UNCHANGED viz_vars
    /\ UNCHANGED config

\* layer.radius_stops = stops
set_radius_stops(stops) ==
    /\ radius_stops # stops
    /\ radius_stops' = stops
    /\ ret' = NoReturn
    /\ earlier_len' = held_len
    /\ UNCHANGED viz_vars
    /\ UNCHANGED <<data, color_stops, color_default, color_function_type,
                   radius_default, radius_function_type>>

\* layer.radius_default = default
set_radius_default(default) ==
    /\ radius_default # default
    /\ radius_default' = default
    /\ ret' = NoReturn
    /\ earlier_len' = held_len
    /\ UNCHANGED viz_vars
    /\ UNCHANGED <<data, color_stops, color_default, color_function_type,
                   radius_stops, radius_function_type>>

\* layer.color_stops = stops
set_color_stops(stops) ==
    /\ color_stops # stops
    /\ color_stops' = stops
    /\ ret' = NoReturn
    /\ earlier_len' = held_len
    /\ UNCHANGED viz_vars
    /\ UNCHANGED <<data, color_default, color_function_type,
                   radius_stops, radius_default, radius_function_type>>

-----------------------------------------------------------------------------
(* mapboxgl/viz.py: MapViz and the configuration objects handed to it.     *)
(*                                                                         *)
(* `viz` is the attribute dict of the MapViz object the program holds: an   *)
(* attribute that was never assigned is not in its DOMAIN, and reading it   *)
(* raises AttributeError.  The attributes the constructor copies from its   *)
(* arguments and no method writes or tests (div_id, width, height, style,   *)
(* center, zoom, pitch, bearing and the four *_zoom_on switches) are left   *)
(* out.                                                                     *)

\* a Python str as its characters, so that startswith can look at them
Chars(c) == [t |-> "str", chars |-> c]

\* str.startswith(prefix)
startswith(s, prefix) ==
    /\ Len(prefix) <= Len(s.chars)
    /\ SubSeq(s.chars, 1, Len(prefix)) = prefix

\* os.environ without MAPBOX_ACCESS_TOKEN
NotSet == [t |-> "unset"]

\* os.environ.get('MAPBOX_ACCESS_TOKEN', default)
environ_get(default) == IF environ = NotSet THEN default ELSE environ

\* no MapViz object: none was constructed, or the constructor raised
NoViz == [class |-> "none"]

\* obj.__dict__.update(attrs): assignment to attributes, new or existing
SetAttrs(obj, attrs) ==
    [a \in DOMAIN obj \cup DOMAIN attrs |-> IF a \in DOMAIN attrs THEN attrs[a] ELSE obj[a]]

\* hasattr(obj, a)
HasAttr(obj, a) == a \in DOMAIN obj

\* outcome of a MapViz operation: what was called with which arguments, the
\* exception it raised ("ok" for none), and for create_html the options
\* handed to the map template, the options each layer's template was given,
\* the value returned and the file written
NoVizReturn == [op |-> "none", status |-> "none"]
VizOutcome(op, args, status) == [op |-> op, args |-> args, status |-> status]

\* MapScale(...), MapSnapshot(...) and MapLegend(...) instances
MapScale(unit_system, position, border_color, background_color, text_color) ==
    [class |-> "MapScale",
     scale |-> FALSE,
     scale_unit_system |-> unit_system,
     scale_position |-> position,
     scale_border_color |-> border_color,
     scale_background_color |-> background_color,
     scale_text_color |-> text_color]

MapSnapshot(position, border_color, background_color, text_color) ==
    [class |-> "MapSnapshot",
     add_snapshot_links |-> FALSE,
     snapshot_position |-> position,
     snapshot_border_color |-> border_color,
     snapshot_background_color |-> background_color,
     snapshot_text_color |-> text_color]

MapLegend(layout, function, gradient, style, fill, header_fill, text_color, text_numeric_precision, title_halo_color, key_shape, key_borders_on) ==
    [class |-> "MapLegend",
     legend_layout |-> layout,
     legend_function |-> function,
     legend_style |-> style,
     legend_gradient |-> gradient,
     legend_fill |-> fill,
     legend_header_fill |-> header_fill,
     legend_text_color |-> text_color,
     legend_text_numeric_precision |-> text_numeric_precision,
     legend_title_halo_color |-> title_halo_color,
     legend_key_shape |-> key_shape,
     legend_key_borders_on |-> key_borders_on]

\* isinstance(obj, cls); None and values of other types are instances of none
isinstance(obj, cls) == HasAttr(obj, "class") /\ obj.class = cls

\* bool(x) of a str or None: '' and None are false
Truthy(x) == x.t = "str" /\ x.s # ""

-----------------------------------------------------------------------------
(* MapViz.__init__ and the constructors of its subclasses *)

\* a faulty constructor: only a token that is exactly 'sk' is refused
MapViz_init_exact(access_token, popup_open_action) ==
    LET token == IF access_token = None THEN environ_get(Chars(<<>>)) ELSE access_token
    IN  IF token.chars = <<"s", "k">> THEN NoViz
        ELSE [class |-> "MapViz",
              access_token |-> token,
              template |-> "map",
              popup_open_action |-> popup_open_action,
              legend |-> FALSE,
              legend_gradient |-> FALSE,
              add_snapshot_links |-> FALSE,
              scale |-> FALSE,
              layers |-> <<>>,
              layer_id_counter |-> 0]

\* MapViz.__init__(access_token, ..., legend, scale, add_snapshot_links,
\* popup_open_action): the object built, NoViz when TokenError is raised.
\* The legend, scale and add_snapshot_links arguments are not read.
MapViz_init(access_token, popup_open_action) ==
    LET token == IF access_token = None THEN environ_get(Chars(<<>>)) ELSE access_token
    IN  IF startswith(token, <<"s", "k">>) THEN NoViz
        ELSE [class |-> "MapViz",
              access_token |-> token,
              template |-> "map",
              popup_open_action |-> popup_open_action,
              legend |-> FALSE,
              legend_gradient |-> FALSE,
              add_snapshot_links |-> FALSE,
              scale |-> FALSE,
              layers |-> <<>>,
              layer_id_counter |-> 0]

\* viz = MapViz(access_token=..., legend=..., scale=..., add_snapshot_links=...,
\*              popup_open_action=...)
construct_MapViz(access_token, legend_arg, scale_arg, add_snapshot_links_arg, popup_open_action) ==
    LET built == MapViz_init(access_token, popup_open_action)
        args == [access_token |-> access_token, legend |-> legend_arg, scale |-> scale_arg,
                 add_snapshot_links |-> add_snapshot_links_arg,
                 popup_open_action |-> popup_open_action]
    IN  /\ viz = NoViz
        /\ viz' = built
        /\ viz_ret' = VizOutcome("MapViz", args, IF built = NoViz THEN "TokenError" ELSE "ok")
        /\ UNCHANGED <<environ, layer_objects>>
        /\ UNCHANGED layer_vars

\* viz = ClusteredCircleViz(data, legend_key_shape=...): the data source is
\* passed on as the first positional argument of MapViz.__init__, which is
\* access_token; the subclass then sets its template and its key shape
construct_ClusteredCircleViz(data_arg, legend_key_shape) ==
    LET built == MapViz_init(data_arg, "hover")
        args == [access_token |-> data_arg, legend |-> FALSE, scale |-> FALSE,
                 add_snapshot_links |-> FALSE, popup_open_action |-> "hover"]
    IN  /\ viz = NoViz
        /\ viz' = IF built = NoViz THEN NoViz
                  ELSE SetAttrs(built, [class |-> "ClusteredCircleViz",
                                        template |-> "clustered_circle",
                                        legend_key_shape |-> legend_key_shape])
        /\ viz_ret' = VizOutcome("ClusteredCircleViz", args,
                                 IF built = NoViz THEN "TokenError" ELSE "ok")
        /\ UNCHANGED <<environ, layer_objects>>
        /\ UNCHANGED layer_vars

-----------------------------------------------------------------------------
(* MapViz.add_legend, add_map_scale, add_map_snapshot and their removers.  *)
(* Each operator gives the attribute dict the method leaves behind and the *)
(* exception it raises ("ok" for none).                                    *)

MethodResult(obj, status) == [viz |-> obj, status |-> status]

\* add_legend(map_legend_object): `if not self.legend_key_shape` reads an
\* attribute MapViz.__init__ never assigns; only some subclasses assign it
add_legend_result(v, map_legend_object) ==
    IF isinstance(map_legend_object, "MapLegend")
    THEN LET copied == SetAttrs(v,
                 [legend |-> TRUE,
                  legend_layout |-> map_legend_object.legend_layout,
                  legend_function |-> map_legend_object.legend_function,
                  legend_style |-> map_legend_object.legend_style,
                  legend_gradient |-> map_legend_object.legend_gradient,
                  legend_fill |-> map_legend_object.legend_fill,
                  legend_header_fill |-> map_legend_object.legend_header_fill,
                  legend_text_color |-> map_legend_object.legend_text_color,
                  legend_text_numeric_precision |->
                      map_legend_object.legend_text_numeric_precision,
                  legend_title_halo_color |-> map_legend_object.legend_title_halo_color])
         IN  IF ~HasAttr(copied, "legend_key_shape")
             THEN MethodResult(copied, "AttributeError")
             ELSE LET shaped == IF ~Truthy(copied.legend_key_shape)
                                THEN SetAttrs(copied,
                                         [legend_key_shape |->
                                              map_legend_object.legend_key_shape])
                                ELSE copied
                  IN  MethodResult(SetAttrs(shaped,
                          [legend_key_borders_on |->
                               map_legend_object.legend_key_borders_on]), "ok")
    ELSE MethodResult(v, "TypeError")

\* the attributes add_map_scale copies from a MapScale
scale_settings(map_scale_object) ==
    [scale |-> TRUE,
     scale_unit_system |-> map_scale_object.scale_unit_system,
     scale_position |-> map_scale_object.scale_position,
     scale_border_color |-> map_scale_object.scale_border_color,
     scale_background_color |-> map_scale_object.scale_background_color,
     scale_text_color |-> map_scale_object.scale_text_color]

\* MapLegend() with its default arguments
DefaultMapLegend ==
    MapLegend("vertical", "color", FALSE, "", "white", "white", "#6e6e6e", None, "white",
              Str("square"), TRUE)

\* MapScale() with its default arguments
DefaultMapScale == MapScale("metric", "bottom-left", "#6e6e6e", "white", "#131516")

add_map_scale_result(v, map_scale_object) ==
    IF isinstance(map_scale_object, "MapScale")
    THEN MethodResult(SetAttrs(v, scale_settings(map_scale_object)), "ok")
    ELSE IF map_scale_object = None
    THEN MethodResult(SetAttrs(v, scale_settings(DefaultMapScale)), "ok")
    ELSE MethodResult(v, "TypeError")

\* the attributes add_map_snapshot copies from its argument
snapshot_settings(map_snapshot_object) ==
    [add_snapshot_links |-> TRUE,
     snapshot_position |-> map_snapshot_object.snapshot_position,
     snapshot_border_color |-> map_snapshot_object.snapshot_border_color,
     snapshot_background_color |-> map_snapshot_object.snapshot_background_color,
     snapshot_text_color |-> map_snapshot_object.snapshot_text_color]

\* MapSnapshot() with its default arguments
DefaultMapSnapshot == MapSnapshot(None, "#6e6e6e", "#fff", "#131516")

\* add_map_snapshot(map_snapshot_object): the first branch tests
\* isinstance(map_snapshot_object, MapScale); a MapScale has no snapshot_*
\* attribute, so reading snapshot_position raises AttributeError after
\* add_snapshot_links was set
add_map_snapshot_result(v, map_snapshot_object) ==
    IF isinstance(map_snapshot_object, "MapScale")
    THEN IF HasAttr(map_snapshot_object, "snapshot_position")
         THEN MethodResult(SetAttrs(v, snapshot_settings(map_snapshot_object)), "ok")
         ELSE MethodResult(SetAttrs(v, [add_snapshot_links |-> TRUE]), "AttributeError")
    ELSE IF map_snapshot_object = None
    THEN MethodResult(SetAttrs(v, snapshot_settings(DefaultMapSnapshot)), "ok")
    ELSE MethodResult(v, "TypeError")

\* viz.add_legend(map_legend_object)
add_legend(map_legend_object) ==
    LET result == add_legend_result(viz, map_legend_object)
    IN  /\ viz # NoViz
        /\ viz' = result.viz
        /\ viz_ret' = VizOutcome("add_legend", map_legend_object, result.status)
        /\ UNCHANGED <<environ, layer_objects>>
        /\ UNCHANGED layer_vars

\* viz.add_map_scale(map_scale_object)
add_map_scale(map_scale_object) ==
    LET result == add_map_scale_result(viz, map_scale_object)
    IN  /\ viz # NoViz
        /\ viz' = result.viz
        /\ viz_ret' = VizOutcome("add_map_scale", map_scale_object, result.status)
        /\ UNCHANGED <<environ, layer_objects>>
        /\ UNCHANGED layer_vars

\* viz.add_map_snapshot(map_snapshot_object)
add_map_snapshot(map_snapshot_object) ==
    LET result == add_map_snapshot_result(viz, map_snapshot_object)
    IN  /\ viz # NoViz
        /\ viz' = result.viz
        /\ viz_ret' = VizOutcome("add_map_snapshot", map_snapshot_object, result.status)
        /\ UNCHANGED <<environ, layer_objects>>
        /\ UNCHANGED layer_vars

\* viz.remove_map_scale()
remove_map_scale ==
    /\ viz # NoViz
    /\ viz' = SetAttrs(viz, [scale |-> FALSE])
    /\ viz_ret' = VizOutcome("remove_map_scale", None, "ok")
    /\ UNCHANGED <<environ, layer_objects>>
    /\ UNCHANGED layer_vars

\* viz.remove_map_snapshot()
remove_map_snapshot ==
    /\ viz # NoViz
    /\ viz' = SetAttrs(viz, [add_snapshot_links |-> FALSE])
    /\ viz_ret' = VizOutcome("remove_map_snapshot", None, "ok")
    /\ UNCHANGED <<environ, layer_objects>>
    /\ UNCHANGED layer_vars

\* viz.remove_legend()
remove_legend ==
    /\ viz # NoViz
    /\ viz' = SetAttrs(viz, [legend |-> FALSE])
    /\ viz_ret' = VizOutcome("remove_legend", None, "ok")
    /\ UNCHANGED <<environ, layer_objects>>
    /\ UNCHANGED layer_vars

-----------------------------------------------------------------------------
(* Layers of a MapViz.  self.layers is a dict; it is modelled as the        *)
(* sequence of its <<key, layer>> items in insertion order, the order in    *)
(* which create_html renders them.  A layer is named by its identity; its   *)
(* attributes are in layer_objects.                                         *)

MaxLayers == 2

LayerNames == {"layer1", "layer2"}

dict_keys(d) == {d[i][1] : i \in DOMAIN d}

\* max(d.keys())
max_key(d) == CHOOSE k \in dict_keys(d) : \A j \in dict_keys(d) : j <= k

\* d.update({k: v}): an existing key keeps its place, a new one goes last
dict_update(d, k, v) ==
    IF k \in dict_keys(d)
    THEN [i \in DOMAIN d |-> IF d[i][1] = k THEN <<k, v>> ELSE d[i]]
    ELSE Append(d, <<k, v>>)

\* viz.add_layer(layer_object)
add_layer(layer_object) ==
    LET layers == viz.layers
        layer_id == IF layer_objects[layer_object].layer_id = None
                    THEN IF Cardinality(dict_keys(layers)) > 0
                         THEN Num(max_key(layers) + 1)
                         ELSE Num(0)
                    ELSE layer_objects[layer_object].layer_id
        i == Len(layers)
    IN  /\ viz # NoViz
        /\ Len(layers) < MaxLayers
        /\ layer_objects' = [layer_objects EXCEPT ![layer_object].layer_id = layer_id]
        /\ viz' = SetAttrs(viz, [layers |-> dict_update(layers, i, layer_object)])
        /\ viz_ret' = VizOutcome("add_layer", layer_object, "ok")
        /\ UNCHANGED environ
        /\ UNCHANGED layer_vars

\* a faulty removal: the entries that stay are renumbered from 0
without_layer_rekey(d, layer_object) ==
    LET Keep(item) == item[2] # layer_object
        kept == SelectSeq(d, Keep)
    IN  [i \in DOMAIN kept |-> <<i - 1, kept[i][2]>>]

\* {k: v for k, v in self.layers.items() if v != layer_object}
without_layer(d, layer_object) ==
    LET Keep(item) == item[2] # layer_object
    IN  SelectSeq(d, Keep)

\* viz.remove_layer(layer_object)
remove_layer(layer_object) ==
    /\ viz # NoViz
    /\ viz' = SetAttrs(viz, [layers |-> without_layer(viz.layers, layer_object)])
    /\ viz_ret' = VizOutcome("remove_layer", layer_object, "ok")
    /\ UNCHANGED <<environ, layer_objects>>
    /\ UNCHANGED layer_vars

-----------------------------------------------------------------------------
(* MapViz.create_html.  The HTML a template produces is modelled as the    *)
(* template's name with the options it is formatted with.                  *)

\* json.dumps of a bool
json_dumps_bool(b) == IF b THEN "true" ELSE "false"

\* the decimal digits of a natural number, as int.__repr__ writes them
decimal_digit(d) ==
    CASE d = 0 -> "0" [] d = 1 -> "1" [] d = 2 -> "2" [] d = 3 -> "3" [] d = 4 -> "4"
      [] d = 5 -> "5" [] d = 6 -> "6" [] d = 7 -> "7" [] d = 8 -> "8" [] d = 9 -> "9"

RECURSIVE natural_repr(_)
natural_repr(n) ==
    IF n < 10 THEN decimal_digit(n)
    ELSE natural_repr(n \div 10) \o decimal_digit(n % 10)

\* a Python int, as distinct from a float of the same value
PyInt(n) == [t |-> "int", n |-> n]

\* json.dumps of self.legend_text_numeric_precision, an int or None: the
\* int's digits, with a minus sign when negative, or null.  Floats, which
\* json.dumps writes in shortest round-trip form, are not values of this
\* model.
json_dumps_number(v) ==
    CASE v = None    -> "null"
      [] v.t = "int" -> (IF v.n < 0 THEN "-" ELSE "") \o natural_repr(Abs(v.n))

\* templates.format(template, **options)
templates_format(template, options) == [template |-> template, options |-> options]

\* MapLayer.create_layer_html(map_options): the layer's own options, then
\* options.update(map_options), then the layer's template
create_layer_html(layer, map_options) ==
    LET options == [layerId |-> layer.layer_id,
                    template |-> "layers/layer",
                    popupOpensOnHover |-> (layer.popup_open_action = "hover")]
    IN  templates_format("layers/layer", SetAttrs(options, map_options))

\* what a call of create_html leaves behind: the exception raised, the value
\* returned, the file written and the HTML of the layers rendered
NothingReturned == [t |-> "nothing"]
NoFile == [t |-> "nofile"]
HtmlOutcome(status, returned, written, rendered) ==
    [status |-> status, returned |-> returned, written |-> written, rendered |-> rendered]

\* a faulty check: self.legend is not consulted, so a legend that was
\* removed still raises
gradient_radius_legend_any(v) ==
    /\ v.legend_gradient
    /\ HasAttr(v, "legend_function")
    /\ v.legend_function = "radius"

\* if self.legend: if all([self.legend, self.legend_gradient,
\*                         self.legend_function == 'radius']): raise LegendError
gradient_radius_legend(v) ==
    /\ v.legend
    /\ v.legend_gradient
    /\ v.legend_function = "radius"

\* create_html(filename)
create_html_result(v, objects, filename) ==
    LET options == [accessToken |-> v.access_token,
                    popupOpensOnHover |-> (v.popup_open_action = "hover"),
                    showScale |-> v.scale,
                    includeSnapshotLinks |-> v.add_snapshot_links,
                    preserveDrawingBuffer |-> json_dumps_bool(FALSE),
                    showLegend |-> v.legend,
                    legendGradient |-> json_dumps_bool(FALSE),
                    legendKeyBordersOn |-> json_dumps_bool(FALSE),
                    layersHtml |-> <<>>]
        with_snapshot ==
            IF v.add_snapshot_links
            THEN SetAttrs(options,
                     [includeSnapshotLinks |-> v.add_snapshot_links,
                      preserveDrawingBuffer |-> json_dumps_bool(v.add_snapshot_links)])
            ELSE options
        with_scale ==
            IF v.scale
            THEN SetAttrs(with_snapshot,
                     [showScale |-> v.scale,
                      scaleUnits |-> v.scale_unit_system,
                      scaleBorderColor |-> v.scale_border_color,
                      scalePosition |-> v.scale_position,
                      scaleFillColor |-> v.scale_background_color,
                      scaleTextColor |-> v.scale_text_color])
            ELSE with_snapshot
    IN  IF gradient_radius_legend(v)
        THEN HtmlOutcome("LegendError", NothingReturned, NoFile, <<>>)
        ELSE IF v.legend /\ (~HasAttr(v, "legend_key_shape") \/ ~HasAttr(v, "legend_key_borders_on"))
        THEN HtmlOutcome("AttributeError", NothingReturned, NoFile, <<>>)
        ELSE LET with_legend ==
                     IF v.legend
                     THEN SetAttrs(with_scale,
                              [showLegend |-> v.legend,
                               legendLayout |-> v.legend_layout,
                               legendFunction |-> v.legend_function,
                               legendStyle |-> v.legend_style,
                               legendGradient |-> json_dumps_bool(v.legend_gradient),
                               legendFill |-> v.legend_fill,
                               legendHeaderFill |-> v.legend_header_fill,
                               legendTextColor |-> v.legend_text_color,
                               legendNumericPrecision |->
                                   json_dumps_number(v.legend_text_numeric_precision),
                               legendTitleHaloColor |-> v.legend_title_halo_color,
                               legendKeyShape |-> v.legend_key_shape,
                               legendKeyBordersOn |-> json_dumps_bool(v.legend_key_borders_on)])
                     ELSE with_scale
                 rendered_html == [i \in DOMAIN v.layers |->
                                       create_layer_html(objects[v.layers[i][2]], with_legend)]
                 html == templates_format(v.template,
                                          SetAttrs(with_legend, [layersHtml |-> rendered_html]))
             IN  IF Truthy(filename)
                 THEN HtmlOutcome("ok", None, [name |-> filename, content |-> html], rendered_html)
                 ELSE HtmlOutcome("ok", html, NoFile, rendered_html)

\* viz.create_html(filename)
create_html(filename) ==
    LET result == create_html_result(viz, layer_objects, filename)
    IN  /\ viz # NoViz
        /\ viz_ret' = [op |-> "create_html", args |-> filename, status |-> result.status,
                       returned |-> result.returned, written |-> result.written,
                       rendered |-> result.rendered]
        /\ UNCHANGED <<viz, environ, layer_objects>>
        /\ UNCHANGED layer_vars

-----------------------------------------------------------------------------
(* The layer as a state machine: a layer is constructed, then its tables   *)
(* are generated in any order, between changes to its data and stops.      *)

FunctionTypes == {"interpolate", "match"}

JoinKeys   == {Num(1), Num(2)}
PopValues  == {Num(5), Num(12)}
CatValues  == {Str("a")}

\* feature dicts: complete ones, and ones lacking a property
Features ==
    [id : JoinKeys, pop : PopValues, cat : CatValues]
        \cup [pop : PopValues, cat : CatValues]
        \cup [id : JoinKeys, cat : CatValues]
        \cup {[id |-> Num(1), pop |-> Num(5)]}

RadiusTables ==
    { <<>>,
      << <<Num(0), Num(1)>>, <<Num(10), Num(100)>> >>,
      << <<Num(0), Num(3)>> >> }
RadiusDefaults == {Num(2), Num(7)}

ColorTables ==
    { << <<Str("a"), Str("red")>>, <<Str("b"), Str("blue")>> >>,
      <<>> }
ColorDefaults == {Str("grey")}

\* no MapViz is constructed
VizIdle ==
    /\ environ = NotSet
    /\ viz = NoViz
    /\ viz_ret = NoVizReturn
    /\ layer_objects =
           [n \in LayerNames |-> [layer_id |-> None, popup_open_action |-> "hover"]]

Init ==
    /\ VizIdle
    /\ data \in {ListData(<<>>)} \cup {StrData(n) : n \in DataSources}
    /\ color_stops \in ColorTables
    /\ color_default \in ColorDefaults
    /\ color_function_type \in FunctionTypes
    /\ radius_stops \in RadiusTables
    /\ radius_default \in RadiusDefaults
    /\ radius_function_type \in FunctionTypes
    /\ ret = NoReturn
    /\ earlier_len = -1

Next ==
    \/ generate_vector_color_map
    \/ \E p \in NumericProperties : generate_vector_numeric_map(p)
    \/ \E f \in Features : append_feature(f)
    \/ \E d \in {ListData(<<>>)} \cup {StrData(n) : n \in DataSources} : set_data(d)
    \/ \E s \in RadiusTables : set_radius_stops(s)
    \/ \E d \in RadiusDefaults : set_radius_default(d)
    \/ \E s \in ColorTables : set_color_stops(s)

Spec == Init /\ [][Next]_vars

-----------------------------------------------------------------------------
(* The resolver exercised through the layer: a layer is constructed over   *)
(* one feature with any lookup value and any stop table of up to MaxStops  *)
(* stops, and its tables are generated.                                    *)

Thresholds == {Num(0), Num(5), Num(10)}
Outputs    == {Num(1), Num(100)}

RECURSIVE SeqsUpTo(_, _)
SeqsUpTo(S, n) ==
    IF n = 0 THEN {<<>>}
    ELSE LET shorter == SeqsUpTo(S, n - 1)
         IN  shorter \cup {Append(s, x) : s \in {t \in shorter : Len(t) = n - 1}, x \in S}

\* stop tables keyed by category, and one mixing numbers and categories
CategoricalTables ==
    { << <<Str("a"), Num(1)>>, <<Str("b"), Num(100)>> >>,
      << <<Num(0), Num(1)>>, <<Str("a"), Num(100)>> >> }

ResolveTables == SeqsUpTo(Thresholds \X Outputs, MaxStops) \cup CategoricalTables

ResolveValues ==
    {Num(-1), Num(0), Num(3), Num(5), Num(10), Num(12), None, Str("a"), Str("c")}

ResolveColorTables ==
    { << <<Str("a"), Str("red")>>, <<Str("b"), Str("blue")>> >>,
      << <<Num(0), Str("blue")>>, <<Num(10), Str("red")>> >> }
ResolveColorValues == {Str("a"), Num(0), Num(5), Num(10)}

InitResolve ==
    /\ VizIdle
    /\ data \in {ListData(<<[id |-> Num(1), pop |-> v, cat |-> c]>>) :
                    v \in ResolveValues, c \in ResolveColorValues}
    /\ color_stops \in ResolveColorTables
    /\ color_default \in ColorDefaults
    /\ color_function_type = "interpolate"
    /\ radius_stops \in ResolveTables
    /\ radius_default = Num(2)
    /\ radius_function_type \in FunctionTypes
    /\ ret = NoReturn
    /\ earlier_len = -1

NextResolve ==
    \/ generate_vector_color_map
    \/ \E p \in NumericProperties : generate_vector_numeric_map(p)

SpecResolve == InitResolve /\ [][NextResolve]_vars

-----------------------------------------------------------------------------
(* Constructing a MapViz: the environment holds any token or none, and the *)
(* program constructs a viz with any arguments and renders it.             *)

\* access tokens: public, secret, empty, and ones that only resemble 'sk'
Tokens ==
    {Chars(<<"p", "k", ".", "a">>), Chars(<<"s", "k", ".", "a">>), Chars(<<"s", "k">>),
     Chars(<<"s">>), Chars(<<"k", "s">>), Chars(<<>>)}

\* data sources a ClusteredCircleViz is given by name
VizDataNames == {Chars(<<"d", ".", "j">>), Chars(<<"s", "k", "i">>)}

PopupOpenActions == {"hover", "click"}

KeyShapes == {Str("circle"), None}

Filenames == {None, Str("map.html")}

\* the layer is as constructed and not used
LayerIdle ==
    /\ data = ListData(<<>>)
    /\ color_stops = <<>>
    /\ color_default = Str("grey")
    /\ color_function_type = "interpolate"
    /\ radius_stops = <<>>
    /\ radius_default = Num(2)
    /\ radius_function_type = "interpolate"
    /\ ret = NoReturn
    /\ earlier_len = -1

\* two layer objects not yet added to a viz, one opening its popups on
\* hover and one on click
FreshLayers ==
    [n \in LayerNames |->
        [layer_id |-> None,
         popup_open_action |-> IF n = "layer1" THEN "hover" ELSE "click"]]

InitConstruct ==
    /\ LayerIdle
    /\ environ \in {NotSet} \cup Tokens
    /\ viz = NoViz
    /\ viz_ret = NoVizReturn
    /\ layer_objects = FreshLayers

NextConstruct ==
    \/ \E t \in Tokens \cup {None}, l \in BOOLEAN, s \in BOOLEAN, a \in BOOLEAN,
          p \in PopupOpenActions : construct_MapViz(t, l, s, a, p)
    \/ \E d \in VizDataNames, k \in KeyShapes : construct_ClusteredCircleViz(d, k)
    \/ \E f \in Filenames : create_html(f)

SpecConstruct == InitConstruct /\ [][NextConstruct]_vars

-----------------------------------------------------------------------------
(* A MapViz in use: the program constructs a viz with a public token, then *)
(* adds and removes legend, scale and snapshot menu, adds layers and       *)
(* renders, in any order.                                                  *)

PublicToken == Chars(<<"p", "k", ".", "a">>)

LegendObjects ==
    {MapLegend("vertical", f, g, "", "white", "white", "#6e6e6e", None, "white",
               Str("square"), TRUE) : f \in {"color", "radius"}, g \in BOOLEAN}
        \cup {MapLegend("horizontal", "color", TRUE, "css", "black", "grey", "red", PyInt(2),
                        "blue", Str("line"), FALSE)}

ScaleObjects == {DefaultMapScale, MapScale("imperial", "top-right", "red", "black", "blue")}

SnapshotObjects ==
    {DefaultMapSnapshot, MapSnapshot(Str("top-left"), "red", "black", "blue")}

\* what each method is called with: instances of its own class, None, and
\* values of other types
LegendArguments == LegendObjects \cup {None, DefaultMapScale}
ScaleArguments == ScaleObjects \cup {None, Str("metric")}
SnapshotArguments == SnapshotObjects \cup {None, DefaultMapScale, Str("top-left")}

InitViz ==
    /\ LayerIdle
    /\ environ = NotSet
    /\ viz = NoViz
    /\ viz_ret = NoVizReturn
    /\ layer_objects = FreshLayers

NextViz ==
    \/ \E p \in PopupOpenActions : construct_MapViz(PublicToken, FALSE, FALSE, FALSE, p)
    \/ \E k \in KeyShapes : construct_ClusteredCircleViz(Chars(<<"d", ".", "j">>), k)
    \/ \E x \in LegendArguments : add_legend(x)
    \/ \E x \in ScaleArguments : add_map_scale(x)
    \/ \E x \in SnapshotArguments : add_map_snapshot(x)
    \/ remove_legend
    \/ remove_map_scale
    \/ remove_map_snapshot
    \/ \E n \in LayerNames : add_layer(n)
    \/ \E f \in Filenames : create_html(f)

SpecViz == InitViz /\ [][NextViz]_vars

-----------------------------------------------------------------------------
(* The layers of a MapViz: the program constructs a viz, switches its      *)
(* legend, scale and snapshot menu on, and adds, removes and renders       *)
(* layers in any order.                                                    *)

NextLayers ==
    \/ \E p \in PopupOpenActions : construct_MapViz(PublicToken, FALSE, FALSE, FALSE, p)
    \/ construct_ClusteredCircleViz(Chars(<<"d", ".", "j">>), Str("circle"))
    \/ add_legend(DefaultMapLegend)
    \/ add_map_scale(None)
    \/ add_map_snapshot(None)
    \/ \E n \in LayerNames : add_layer(n)
    \/ \E n \in LayerNames : remove_layer(n)
    \/ \E f \in Filenames : create_html(f)

SpecLayers == InitViz /\ [][NextLayers]_vars

-----------------------------------------------------------------------------
(* Vocabulary of the claims.  After a generation call (ret.op # "none")    *)
(* `data` is the list the call iterated and the stops and defaults are the *)
(* ones it read: every assignment to the layer resets `ret`.               *)

Generated == ret.op # "none"

\* the property a call looks values up by, and the resolver's answer for a row
LookupOf(op) == IF op = "color" THEN color_property ELSE radius_property
DefaultOf(op) == IF op = "color" THEN color_default ELSE radius_default
ResolvedFor(op, row) ==
    IF op = "color" THEN color_map(row[color_property], color_stops, color_default)
    ELSE numeric_map(row[radius_property], radius_stops, radius_default)

HasLookup(op, row) == LookupOf(op) \in DOMAIN row
HasJoinKey(row) == data_join_property \in DOMAIN row
AllComplete(op, rows) ==
    \A i \in DOMAIN rows : HasLookup(op, rows[i]) /\ HasJoinKey(rows[i])

\* C1: when every feature has the lookup and the join-key property, a
\* generation call returns one [join_key, resolved_value] pair per feature,
\* in input order: pair i holds feature i's join key and the resolver's
\* result for feature i's lookup value with the layer's stops and default.
C1_OnePairPerFeatureInOrder ==
    (Generated /\ AllComplete(ret.op, data.rows)) =>
        /\ ret.status = "ok"
        /\ Len(ret.table) = Len(data.rows)
        /\ \A i \in DOMAIN data.rows :
               ret.table[i] = <<data.rows[i][data_join_property],
                                ResolvedFor(ret.op, data.rows[i])>>

C1_Witness ==
    /\ ret.op = "numeric"
    /\ ret.status = "ok"
    /\ Len(ret.table) = 2
    /\ ret.table[1][1] # ret.table[2][1]
    /\ ret.table[1][2] # ret.table[2][2]

\* C2: join keys are never deduplicated: for every join key, the positions
\* of the pairs carrying it in the output are exactly the positions of the
\* features carrying it in the input.
C2_NoDeduplication ==
    (Generated /\ AllComplete(ret.op, data.rows)) =>
        \A k \in {data.rows[i][data_join_property] : i \in DOMAIN data.rows} :
            {i \in DOMAIN ret.table : ret.table[i][1] = k}
                = {i \in DOMAIN data.rows : data.rows[i][data_join_property] = k}

C2_Witness ==
    /\ Generated
    /\ ret.status = "ok"
    /\ Len(data.rows) = 2
    /\ data.rows[1][data_join_property] = data.rows[2][data_join_property]
    /\ Len(ret.table) = 2
    /\ ret.table[1][1] = ret.table[2][1]
    /\ ret.table[1][2] # ret.table[2][2]

\* C3: when any feature lacks the join-key property the call raises for the
\* whole batch: nothing is returned, not even the pairs of the features
\* before or after the offending one.
C3_MissingJoinKeyFailsBatch ==
    (Generated /\ \E i \in DOMAIN data.rows : ~HasJoinKey(data.rows[i])) =>
        /\ ret.status = "KeyError"
        /\ ret.table = <<>>

C3_Witness ==
    /\ ret.op = "numeric"
    /\ Len(data.rows) = 2
    /\ HasLookup("numeric", data.rows[1]) /\ HasJoinKey(data.rows[1])
    /\ HasLookup("numeric", data.rows[2]) /\ ~HasJoinKey(data.rows[2])
    /\ ret.status = "KeyError"

\* C4 as claimed: a feature that has the join key but lacks the lookup
\* property raises nothing and its pair carries the configured default.
C4_MissingLookupGetsDefault ==
    (/\ Generated
     /\ \A i \in DOMAIN data.rows : HasJoinKey(data.rows[i])
     /\ \E i \in DOMAIN data.rows : ~HasLookup(ret.op, data.rows[i])) =>
        /\ ret.status = "ok"
        /\ Len(ret.table) = Len(data.rows)
        /\ \A i \in DOMAIN data.rows :
               ~HasLookup(ret.op, data.rows[i]) => ret.table[i][2] = DefaultOf(ret.op)

\* C4 as amended: when a feature lacks the lookup property the call raises
\* KeyError for the whole batch and returns no table, whether or not the
\* feature has the join key.
C4_MissingLookupFailsBatch ==
    (Generated /\ \E i \in DOMAIN data.rows : ~HasLookup(ret.op, data.rows[i])) =>
        /\ ret.status = "KeyError"
        /\ ret.table = <<>>

C4_Witness ==
    /\ ret.op = "numeric"
    /\ Len(data.rows) >= 1
    /\ HasJoinKey(data.rows[1])
    /\ ~HasLookup("numeric", data.rows[1])
    /\ ret.status = "KeyError"

\* C5 as claimed: a generation call changes nothing: the features, the stop
\* tables, the defaults and the layer's stored data are as before the call.
C5_NoSideEffect ==
    [][ret'.op # "none" => (data' = data /\ UNCHANGED config)]_vars

\* C5 as amended: a generation call leaves the stop tables, the defaults and
\* the function types unchanged, and leaves the stored data unchanged when it
\* is a list of features; when the stored data is a str naming a file or URL
\* the call replaces it by the list of the features read from it.
C5_OnlyParsesStoredData ==
    [][ret'.op # "none" =>
          /\ UNCHANGED config
          /\ data.type = "list" => data' = data
          /\ data.type = "str" => data' = ListData(SourceContent(data.name))]_vars

C5_Witness ==
    /\ Generated
    /\ ret.loaded
    /\ ret.status = "ok"
    /\ data = ListData(SourceContent("join.json"))

\* the outcome of a call that starts from an empty table, from what the
\* layer holds at the call
FreshOutcome(op, rows, cstops, cdefault, rstops, rdefault) ==
    IF \E i \in DOMAIN rows : ~HasLookup(op, rows[i]) \/ ~HasJoinKey(rows[i])
    THEN Raised
    ELSE Returned([i \in DOMAIN rows |->
            <<rows[i][data_join_property],
              IF op = "color" THEN color_map(rows[i][color_property], cstops, cdefault)
              ELSE numeric_map(rows[i][radius_property], rstops, rdefault)>>])

\* C6: the table is built from scratch on every call: whatever calls and
\* changes came before, a call's outcome is the one computed from the data,
\* stops and default current at that call, and holds nothing of an earlier
\* call's table.
C6_BuiltFreshOnEveryCall ==
    [][ret'.op # "none" =>
          LET fresh == FreshOutcome(ret'.op, data'.rows, color_stops', color_default',
                                    radius_stops', radius_default')
          IN  ret'.status = fresh.status /\ ret'.table = fresh.table]_vars

C6_Witness ==
    /\ Generated
    /\ ret.status = "ok"
    /\ Len(ret.table) = 1
    /\ earlier_len = 2

-----------------------------------------------------------------------------
(* Claims about the resolved values, checked under SpecResolve.            *)

\* thresholds are numbers, each greater than the one before
StrictlyAscending(stops) ==
    /\ \A i \in DOMAIN stops : IsNumber(stops[i][1])
    /\ \A i \in 1..(Len(stops) - 1) : RLt(stops[i][1].q, stops[i + 1][1].q)

\* threshold_i <= v < threshold_{i+1}
Brackets(stops, i, v) ==
    /\ i \in 1..(Len(stops) - 1)
    /\ RLe(stops[i][1].q, v.q)
    /\ RLt(v.q, stops[i + 1][1].q)

\* output_i + (v - threshold_i) / (threshold_{i+1} - threshold_i) * (output_{i+1} - output_i)
LinearValue(stops, i, v) ==
    NumQ(RAdd(stops[i][2].q,
              RMul(RDiv(RSub(v.q, stops[i][1].q),
                        RSub(stops[i + 1][1].q, stops[i][1].q)),
                   RSub(stops[i + 1][2].q, stops[i][2].q))))

\* the piecewise-linear value of v over strictly ascending stops
PiecewiseLinear(stops, v) ==
    IF RLt(v.q, stops[1][1].q) THEN stops[1][2]
    ELSE IF RLe(stops[Len(stops)][1].q, v.q) THEN stops[Len(stops)][2]
    ELSE LinearValue(stops, CHOOSE i \in 1..(Len(stops) - 1) : Brackets(stops, i, v), v)

\* a numeric table was asked for over features that all have both properties
NumericCall == ret.op = "numeric" /\ AllComplete("numeric", data.rows)
NumericReturned == ret.status = "ok" /\ Len(ret.table) = Len(data.rows)
LookupValue(r) == data.rows[r][radius_property]

\* C7 as claimed: the layer's function type selects the resolution: under
\* match a value gets the output of a stop whose key equals it, or the
\* default when no key equals it; under interpolate it gets the
\* piecewise-linear value (so a value strictly between two thresholds is
\* resolved differently by two layers that differ only in function type).
C7_FunctionTypeSelectsResolution ==
    NumericCall =>
        /\ NumericReturned
        /\ \A r \in DOMAIN data.rows :
            /\ radius_function_type = "match" =>
                  IF LookupValue(r) \in match_keys(radius_stops)
                  THEN \E i \in DOMAIN radius_stops :
                          /\ radius_stops[i][1] = LookupValue(r)
                          /\ ret.table[r][2] = radius_stops[i][2]
                  ELSE ret.table[r][2] = radius_default
            /\ (/\ radius_function_type = "interpolate"
                /\ radius_stops # <<>>
                /\ StrictlyAscending(radius_stops)
                /\ IsNumber(LookupValue(r))) =>
                  ret.table[r][2] = PiecewiseLinear(radius_stops, LookupValue(r))

\* thresholds are numbers, none less than the one before
Ascending(stops) ==
    /\ \A i \in DOMAIN stops : IsNumber(stops[i][1])
    /\ \A i \in 1..(Len(stops) - 1) : RLe(stops[i][1].q, stops[i + 1][1].q)

\* C8 as claimed: in interpolate mode with ascending stops, a value v with
\* threshold_i <= v < threshold_{i+1} resolves to output_i + (v - threshold_i)
\* / (threshold_{i+1} - threshold_i) * (output_{i+1} - output_i).
C8_InterpolatesOfAscendingTable ==
    (NumericCall /\ radius_function_type = "interpolate" /\ Ascending(radius_stops)) =>
        \A r \in DOMAIN data.rows : \A i \in 1..(Len(radius_stops) - 1) :
            (IsNumber(LookupValue(r)) /\ Brackets(radius_stops, i, LookupValue(r))) =>
                /\ NumericReturned
                /\ ret.table[r][2] = LinearValue(radius_stops, i, LookupValue(r))

\* C8 as amended: in interpolate mode with stops whose thresholds are numbers
\* in strictly ascending order, a value v with threshold_i <= v <
\* threshold_{i+1} resolves to output_i + (v - threshold_i) / (threshold_{i+1}
\* - threshold_i) * (output_{i+1} - output_i); stops [[0, 1], [10, 100]] and
\* value 5 give 50.5.
C8_InterpolatesOfStrictlyAscendingTable ==
    (NumericCall /\ radius_function_type = "interpolate" /\ StrictlyAscending(radius_stops)) =>
        \A r \in DOMAIN data.rows : \A i \in 1..(Len(radius_stops) - 1) :
            (IsNumber(LookupValue(r)) /\ Brackets(radius_stops, i, LookupValue(r))) =>
                /\ NumericReturned
                /\ ret.table[r][2] = LinearValue(radius_stops, i, LookupValue(r))

C8_Witness ==
    /\ NumericCall
    /\ radius_function_type = "interpolate"
    /\ radius_stops = << <<Num(0), Num(1)>>, <<Num(10), Num(100)>> >>
    /\ LookupValue(1) = Num(5)
    /\ NumericReturned
    /\ ret.table[1][2] = NumQ(<<101, 2>>)

\* C9 as claimed: in interpolate mode with any non-empty stop table, a value
\* below the first stop's threshold resolves to the first stop's output.
C9_BelowFirstOfAnyTable ==
    (NumericCall /\ radius_function_type = "interpolate" /\ radius_stops # <<>>) =>
        \A r \in DOMAIN data.rows :
            (/\ IsNumber(LookupValue(r))
             /\ IsNumber(radius_stops[1][1])
             /\ RLt(LookupValue(r).q, radius_stops[1][1].q)) =>
                /\ NumericReturned
                /\ ret.table[r][2] = radius_stops[1][2]

\* C9 as amended: in interpolate mode with a non-empty stop table whose
\* thresholds are numbers in strictly ascending order, a value below the
\* first stop's threshold resolves to the first stop's output exactly.
C9_BelowFirstOfAscendingTable ==
    (/\ NumericCall
     /\ radius_function_type = "interpolate"
     /\ radius_stops # <<>>
     /\ StrictlyAscending(radius_stops)) =>
        \A r \in DOMAIN data.rows :
            (/\ IsNumber(LookupValue(r))
             /\ RLt(LookupValue(r).q, radius_stops[1][1].q)) =>
                /\ NumericReturned
                /\ ret.table[r][2] = radius_stops[1][2]

C9_Witness ==
    /\ NumericCall
    /\ radius_function_type = "interpolate"
    /\ Len(radius_stops) >= 2
    /\ StrictlyAscending(radius_stops)
    /\ radius_stops[1][2] # radius_stops[2][2]
    /\ LookupValue(1) = Num(-1)
    /\ NumericReturned
    /\ ret.table[1][2] = radius_stops[1][2]

\* C10 as claimed: in interpolate mode with any non-empty stop table, a value
\* at or above the last stop's threshold resolves to the last stop's output.
C10_AtOrAboveLastOfAnyTable ==
    (NumericCall /\ radius_function_type = "interpolate" /\ radius_stops # <<>>) =>
        \A r \in DOMAIN data.rows :
            (/\ IsNumber(LookupValue(r))
             /\ IsNumber(radius_stops[Len(radius_stops)][1])
             /\ RLe(radius_stops[Len(radius_stops)][1].q, LookupValue(r).q)) =>
                /\ NumericReturned
                /\ ret.table[r][2] = radius_stops[Len(radius_stops)][2]

\* C10 as amended: in interpolate mode with a non-empty stop table whose
\* thresholds are numbers in strictly ascending order, a value at or above
\* the last stop's threshold resolves to the last stop's output exactly.
C10_AtOrAboveLastOfAscendingTable ==
    (/\ NumericCall
     /\ radius_function_type = "interpolate"
     /\ radius_stops # <<>>
     /\ StrictlyAscending(radius_stops)) =>
        \A r \in DOMAIN data.rows :
            (/\ IsNumber(LookupValue(r))
             /\ RLe(radius_stops[Len(radius_stops)][1].q, LookupValue(r).q)) =>
                /\ NumericReturned
                /\ ret.table[r][2] = radius_stops[Len(radius_stops)][2]

C10_Witness ==
    /\ NumericCall
    /\ radius_function_type = "interpolate"
    /\ Len(radius_stops) >= 2
    /\ StrictlyAscending(radius_stops)
    /\ radius_stops[Len(radius_stops)][2] # radius_stops[1][2]
    /\ LookupValue(1) = Num(12)
    /\ NumericReturned
    /\ ret.table[1][2] = radius_stops[Len(radius_stops)][2]

\* C11: in interpolate mode with strictly ascending stops, a value equal to
\* the threshold of some stop (the first, the last or an interior one)
\* resolves to exactly that stop's output.
C11_AtThresholdGivesThatOutput ==
    (NumericCall /\ radius_function_type = "interpolate" /\ StrictlyAscending(radius_stops)) =>
        \A r \in DOMAIN data.rows : \A i \in DOMAIN radius_stops :
            LookupValue(r) = radius_stops[i][1] =>
                /\ NumericReturned
                /\ ret.table[r][2] = radius_stops[i][2]

\* an interior stop whose output differs from both neighbours' is hit
C11_Witness ==
    /\ NumericCall
    /\ radius_function_type = "interpolate"
    /\ Len(radius_stops) = 3
    /\ StrictlyAscending(radius_stops)
    /\ radius_stops[2][2] # radius_stops[1][2]
    /\ radius_stops[2][2] # radius_stops[3][2]
    /\ LookupValue(1) = radius_stops[2][1]
    /\ NumericReturned
    /\ ret.table[1][2] = radius_stops[2][2]

\* C12 as claimed: in match mode a value equal to a key of the stop table
\* resolves to that key's output, and a value equal to no key resolves to the
\* default.
C12_MatchModeExactOrDefault ==
    (NumericCall /\ radius_function_type = "match") =>
        /\ NumericReturned
        /\ \A r \in DOMAIN data.rows :
               IF LookupValue(r) \in match_keys(radius_stops)
               THEN \E i \in DOMAIN radius_stops :
                       /\ radius_stops[i][1] = LookupValue(r)
                       /\ ret.table[r][2] = radius_stops[i][2]
               ELSE ret.table[r][2] = radius_default

\* a colour table was asked for over features that all have both properties
ColorCall == ret.op = "color" /\ AllComplete("color", data.rows)
ColorReturned == ret.status = "ok" /\ Len(ret.table) = Len(data.rows)
ColorLookupValue(r) == data.rows[r][color_property]

\* component k of the colour at v between stops i and i + 1
LinearComponent(stops, i, v, k) ==
    LET lower_color == rgb_tuple_from_str(stops[i][2])
        upper_color == rgb_tuple_from_str(stops[i + 1][2])
        fraction == RDiv(RSub(v.q, stops[i][1].q), RSub(stops[i + 1][1].q, stops[i][1].q))
    IN  RAdd(lower_color[k], RMul(fraction, RSub(upper_color[k], lower_color[k])))

\* C13: in interpolate mode over strictly ascending colour stops, a value
\* strictly between two consecutive thresholds resolves to the colour whose
\* red, green and blue components are each the linear interpolation of the
\* two bracketing colours' components; a value equal to the lower threshold
\* (fraction 0) resolves to exactly the lower stop's colour and a value equal
\* to the upper threshold (fraction 1) to exactly the upper stop's colour.
C13_ColorInterpolationEndpoints ==
    (/\ ColorCall
     /\ color_function_type = "interpolate"
     /\ StrictlyAscending(color_stops)) =>
        \A r \in DOMAIN data.rows : \A i \in 1..(Len(color_stops) - 1) :
            LET v == ColorLookupValue(r)
            IN  /\ v = color_stops[i][1] =>
                       ColorReturned /\ ret.table[r][2] = color_stops[i][2]
                /\ v = color_stops[i + 1][1] =>
                       ColorReturned /\ ret.table[r][2] = color_stops[i + 1][2]
                /\ (/\ IsNumber(v)
                     /\ RLt(color_stops[i][1].q, v.q)
                     /\ RLt(v.q, color_stops[i + 1][1].q)) =>
                       /\ ColorReturned
                       /\ ret.table[r][2] =
                              Rgb([k \in 1..3 |-> LinearComponent(color_stops, i, v, k)])

\* fraction 1: the value is the upper threshold and the upper colour comes back
C13_Witness ==
    /\ ColorCall
    /\ color_function_type = "interpolate"
    /\ Len(color_stops) = 2
    /\ StrictlyAscending(color_stops)
    /\ color_stops[1][2] # color_stops[2][2]
    /\ ColorLookupValue(1) = color_stops[2][1]
    /\ ColorReturned
    /\ ret.table[1][2] = color_stops[2][2]

-----------------------------------------------------------------------------
(* Claims about repeated calls, checked under Spec.                        *)

\* C14: generation is repeatable: when a table is generated twice in a row
\* with no change to the layer in between, the second call has the outcome
\* of the first: the same table, pair for pair, or the same error. (The
\* resolver is given the value, the stops and the default only and keeps
\* nothing between calls, so the pairs of a table depend on nothing else.)
C14_SameTableTwiceInARow ==
    [][(ret.op # "none" /\ ret'.op = ret.op) =>
          /\ ret'.status = ret.status
          /\ ret'.table = ret.table]_vars

\* the second of two calls: the first parsed the str source and returned two
\* pairs, the second found the parsed list and returned two pairs again
C14_Witness ==
    /\ ret.op = "numeric"
    /\ ret.status = "ok"
    /\ ~ret.loaded
    /\ data = ListData(SourceContent("join.json"))
    /\ Len(ret.table) = 2
    /\ ret.table[1][2] # ret.table[2][2]
    /\ earlier_len = 2

-----------------------------------------------------------------------------
(* Claims about constructing a MapViz, checked under SpecConstruct.        *)

\* the most recent operation was MapViz(...) with these arguments
Constructed == viz_ret.op = "MapViz"

\* the token the constructor works with: the one given, else the one in the
\* environment, else the empty string
EffectiveToken ==
    IF viz_ret.args.access_token # None THEN viz_ret.args.access_token
    ELSE IF environ # NotSet THEN environ
    ELSE Chars(<<>>)

BeginsWithSk(token) ==
    /\ Len(token.chars) >= 2
    /\ token.chars[1] = "s"
    /\ token.chars[2] = "k"

\* C15: constructing a MapViz whose access token (the one given, or the one
\* in MAPBOX_ACCESS_TOKEN when none is given, or '' when there is neither)
\* starts with 'sk' raises TokenError and leaves no viz; with any other token
\* the construction succeeds and the viz stores that token.
C15_SecretTokenRefused ==
    Constructed =>
        IF BeginsWithSk(EffectiveToken)
        THEN viz_ret.status = "TokenError" /\ viz = NoViz
        ELSE viz_ret.status = "ok" /\ viz # NoViz /\ viz.access_token = EffectiveToken

\* no token is given and the environment holds a secret one
C15_Witness ==
    /\ Constructed
    /\ viz_ret.args.access_token = None
    /\ environ = Chars(<<"s", "k", ".", "a">>)
    /\ viz_ret.status = "TokenError"
    /\ viz = NoViz

\* C20 as claimed: right after a successful construction the viz's legend,
\* scale and add_snapshot_links flags are the values passed to the
\* constructor.
C20_ConstructorFlagsTakeEffect ==
    (Constructed /\ viz_ret.status = "ok") =>
        /\ viz.legend = viz_ret.args.legend
        /\ viz.scale = viz_ret.args.scale
        /\ viz.add_snapshot_links = viz_ret.args.add_snapshot_links

-----------------------------------------------------------------------------
(* Claims about a MapViz in use, checked under SpecViz.                    *)

Rendering == viz_ret.op = "create_html"

\* C16: create_html raises LegendError exactly when the legend is enabled,
\* legend_gradient is true and legend_function is 'radius'; then it returns
\* no HTML, writes no file and renders no layer; in every other state it
\* raises no LegendError.
C16_LegendErrorExactlyForGradientRadius ==
    Rendering =>
        LET refused == /\ viz.legend
                       /\ viz.legend_gradient
                       /\ viz.legend_function = "radius"
        IN  /\ (viz_ret.status = "LegendError") <=> refused
            /\ refused =>
                  /\ viz_ret.returned = NothingReturned
                  /\ viz_ret.written = NoFile
                  /\ viz_ret.rendered = <<>>

\* a viz with a layer and a gradient radius legend is rendered to a file
C16_Witness ==
    /\ Rendering
    /\ viz_ret.status = "LegendError"
    /\ Len(viz.layers) >= 1
    /\ viz_ret.args = Str("map.html")
    /\ viz_ret.written = NoFile
    /\ viz_ret.rendered = <<>>

\* C17 as claimed: add_legend with a MapLegend succeeds on every MapViz, sets
\* legend to True and makes every legend setting of the viz the object's,
\* the key shape being the object's or the viz's own.
C17_AddLegendSucceedsOnAnyViz ==
    (viz_ret.op = "add_legend" /\ isinstance(viz_ret.args, "MapLegend")) =>
        /\ viz_ret.status = "ok"
        /\ viz.legend = TRUE
        /\ viz.legend_layout = viz_ret.args.legend_layout
        /\ viz.legend_function = viz_ret.args.legend_function
        /\ viz.legend_style = viz_ret.args.legend_style
        /\ viz.legend_gradient = viz_ret.args.legend_gradient
        /\ viz.legend_fill = viz_ret.args.legend_fill
        /\ viz.legend_header_fill = viz_ret.args.legend_header_fill
        /\ viz.legend_text_color = viz_ret.args.legend_text_color
        /\ viz.legend_text_numeric_precision = viz_ret.args.legend_text_numeric_precision
        /\ viz.legend_title_halo_color = viz_ret.args.legend_title_halo_color
        /\ viz.legend_key_borders_on = viz_ret.args.legend_key_borders_on
        /\ HasAttr(viz, "legend_key_shape")

\* the argument is of the wrong type for the method that was called
WrongType(op, x) ==
    CASE op = "add_legend"       -> ~isinstance(x, "MapLegend")
      [] op = "add_map_scale"    -> x # None /\ ~isinstance(x, "MapScale")
      [] op = "add_map_snapshot" -> x # None /\ ~isinstance(x, "MapSnapshot")
      [] OTHER                   -> FALSE

\* C18 as claimed: add_legend, add_map_scale and add_map_snapshot called with
\* an argument of the wrong type raise TypeError and change nothing of the
\* viz; add_map_scale(None) and add_map_snapshot(None) enable the feature
\* with the default MapScale / MapSnapshot settings.
C18_WrongTypeRaisesAndChangesNothing ==
    [][/\ WrongType(viz_ret'.op, viz_ret'.args) =>
              viz_ret'.status = "TypeError" /\ viz' = viz
       /\ (viz_ret'.op = "add_map_scale" /\ viz_ret'.args = None) =>
              /\ viz_ret'.status = "ok"
              /\ viz' = SetAttrs(viz, scale_settings(DefaultMapScale))
       /\ (viz_ret'.op = "add_map_snapshot" /\ viz_ret'.args = None) =>
              /\ viz_ret'.status = "ok"
              /\ viz' = SetAttrs(viz, snapshot_settings(DefaultMapSnapshot))]_vars

\* C19 as claimed: add_map_snapshot with a MapSnapshot sets add_snapshot_links
\* to True and copies the object's four snapshot settings; TypeError is
\* raised only for arguments that are neither None nor a MapSnapshot.
C19_SnapshotObjectAccepted ==
    viz_ret.op = "add_map_snapshot" =>
        /\ isinstance(viz_ret.args, "MapSnapshot") =>
              /\ viz_ret.status = "ok"
              /\ viz.add_snapshot_links = TRUE
              /\ viz.snapshot_position = viz_ret.args.snapshot_position
              /\ viz.snapshot_border_color = viz_ret.args.snapshot_border_color
              /\ viz.snapshot_background_color = viz_ret.args.snapshot_background_color
              /\ viz.snapshot_text_color = viz_ret.args.snapshot_text_color
        /\ viz_ret.status = "TypeError" =>
              viz_ret.args # None /\ ~isinstance(viz_ret.args, "MapSnapshot")

\* the layer object rendered at position i of the most recent create_html
RenderedLayer(i) == layer_objects[viz.layers[i][2]]

\* C21 as claimed: for every layer create_html renders, the popupOpensOnHover
\* option handed to that layer's template is true exactly when the layer's
\* own popup_open_action is 'hover', whatever the viz's popup_open_action.
C21_LayerPopupActionControlsItsPopups ==
    (Rendering /\ viz_ret.status = "ok") =>
        /\ Len(viz_ret.rendered) = Len(viz.layers)
        /\ \A i \in DOMAIN viz_ret.rendered :
               viz_ret.rendered[i].options.popupOpensOnHover
                   = (RenderedLayer(i).popup_open_action = "hover")

-----------------------------------------------------------------------------
(* Claims about the layers of a MapViz, checked under SpecLayers.          *)

\* the layer objects a layers dict holds
LayersIn(d) == {d[i][2] : i \in DOMAIN d}

\* C22 as claimed: after any sequence of add_layer and remove_layer calls,
\* add_layer(L) displaces nothing: L is among the viz's layers afterwards and
\* every layer that was in the viz before the call is still in it.
C22_AddLayerDisplacesNothing ==
    [][viz_ret'.op = "add_layer" =>
          /\ viz_ret'.args \in LayersIn(viz'.layers)
          /\ LayersIn(viz.layers) \subseteq LayersIn(viz'.layers)]_vars

\* C23: remove_layer(L) removes every entry holding L and nothing else:
\* afterwards no entry is L, the entries that held another layer are all
\* there with their keys, their layers and their order, a viz that did not
\* hold L has the same layers as before, and every other attribute of the
\* viz (legend, scale and snapshot settings among them) is as before.
C23_RemoveLayerRemovesOnlyThatLayer ==
    [][viz_ret'.op = "remove_layer" =>
          LET L == viz_ret'.args
              others == {i \in DOMAIN viz.layers : viz.layers[i][2] # L}
          IN  /\ L \notin LayersIn(viz'.layers)
              /\ {viz'.layers[i] : i \in DOMAIN viz'.layers}
                     = {viz.layers[i] : i \in others}
              /\ Len(viz'.layers) = Cardinality(others)
              /\ \A i, j \in DOMAIN viz'.layers :
                     i < j => \E a, b \in others :
                                 /\ a < b
                                 /\ viz.layers[a] = viz'.layers[i]
                                 /\ viz.layers[b] = viz'.layers[j]
              /\ L \notin LayersIn(viz.layers) => viz'.layers = viz.layers
              /\ DOMAIN viz' = DOMAIN viz
              /\ \A a \in DOMAIN viz \ {"layers"} : viz'[a] = viz[a]
              /\ layer_objects' = layer_objects]_vars

\* layer1 held key 0 and layer2 key 1; layer1 was removed from a viz whose
\* scale is on, and layer2 is still at key 1
C23_Witness ==
    /\ viz_ret.op = "remove_layer"
    /\ viz_ret.args = "layer1"
    /\ viz.layers = << <<1, "layer2">> >>
    /\ layer_objects["layer1"].layer_id = Num(0)
    /\ viz.scale

=============================================================================
